---- MODULE Spec2Model ----
(***************************************************************************)
(* Model of the two batch stages of the scraper pipeline:                  *)
(*   cloud_function/extractor-per-listing/main.py  (extract_http)          *)
(*   cloud_function/materialize-master/main.py     (materialize_http)      *)
(* The object store is the only persistent state: the raw .txt inputs,     *)
(* the structured .jsonl records and the consolidated CSV.                 *)
(***************************************************************************)
EXTENDS Integers, Sequences, FiniteSets, TLC

\* ------------------------------------------------------------- bounds
MaxTxt == 2        \* at most this many raw .txt objects in the bucket
MaxRecs == 3       \* at most this many structured records before a materialize run
MaxCalls == 2      \* at most this many handler invocations in a behaviour

\* ------------------------------------------------------------- run ids
\* A run id is a string.  kind says which pattern the string has:
\*   "plain"  ^\d{14}$         date and time are its first 8 and last 6 digits
\*   "iso"    ^\d{8}T\d{6}Z$   date and time are the digits around the T
\*   "other"  matches neither pattern
\*   "absent" no run_id in the request body
P1     == [kind |-> "plain", date |-> 20250101, time |-> 120000]  \* 20250101120000
I0     == [kind |-> "iso",   date |-> 20250101, time |-> 60000]   \* 20250101T060000Z
I1     == [kind |-> "iso",   date |-> 20250101, time |-> 120000]  \* 20250101T120000Z
BadCal == [kind |-> "plain", date |-> 20251301, time |-> 0]       \* 20251301000000
Other  == [kind |-> "other", date |-> 0,        time |-> 0]       \* e.g. "latest"
NoRun  == [kind |-> "absent", date |-> 0,       time |-> 0]

\* RUN_ID_ISO_RE / RUN_ID_PLAIN_RE
RUN_ID_ISO_RE(rid)   == rid.kind = "iso"
RUN_ID_PLAIN_RE(rid) == rid.kind = "plain"

\* Python's str "<" on two run ids that each match one of the two patterns:
\* the 8 date digits decide first; at the ninth character a digit (plain)
\* sorts before "T" (iso); within one pattern the 6 time digits decide.
StrLess(a, b) ==
    \/ a.date < b.date
    \/ /\ a.date = b.date
       /\ \/ a.kind = "plain" /\ b.kind = "iso"
          \/ a.kind = b.kind /\ a.time < b.time

\* sorted(run_ids) as a sequence, ascending by string value
RECURSIVE SortedRunIds(_)
SortedRunIds(S) ==
    IF S = {} THEN <<>>
    ELSE LET m == CHOOSE x \in S : \A y \in S \ {x} : StrLess(x, y)
         IN  <<m>> \o SortedRunIds(S \ {m})

\* datetime.strptime(rid, fmt): raises ValueError unless the digits are a
\* calendar date and a time of day
DaysIn(y, m) ==
    IF m \in {4, 6, 9, 11} THEN 30
    ELSE IF m = 2 THEN (IF (y % 4 = 0 /\ y % 100 # 0) \/ y % 400 = 0 THEN 29 ELSE 28)
    ELSE 31

StrptimeOk(rid) ==
    LET y  == rid.date \div 10000
        m  == (rid.date \div 100) % 100
        d  == rid.date % 100
        hh == rid.time \div 10000
        mi == (rid.time \div 100) % 100
        ss == rid.time % 100
    IN  /\ y >= 1 /\ m \in 1..12 /\ d >= 1 /\ d <= DaysIn(y, m)
        /\ hh <= 23 /\ mi <= 59 /\ ss <= 59

\* An instant is [d |-> yyyymmdd, t |-> hhmmss-or-tick]; datetime ">" on two.
Instant(rid) == [d |-> rid.date, t |-> rid.time]
DtGreater(x, y) == x.d > y.d \/ (x.d = y.d /\ x.t > y.t)

\* datetime.now(timezone.utc) at the c-th invocation: later than every run
NowAt(c) == [d |-> 20261102, t |-> c]

\* ------------------------------------------------------------- objects
\* A raw input object  scrapes/[run_id=]<run>/[<sub>/]<base>.txt
Txt(label, run, sub, base) == [label |-> label, run |-> run, sub |-> sub, base |-> base]

TxtNames ==
    { Txt(TRUE,  P1, "txt", "a"), Txt(TRUE,  P1, "txt", "b"), Txt(FALSE, P1, "", "a"),
      Txt(FALSE, I0, "", "a"),    Txt(FALSE, I0, "old", "a"),
      Txt(FALSE, I1, "txt", "a"),
      Txt(TRUE,  BadCal, "", "a"), Txt(TRUE,  BadCal, "", "b"),
      Txt(FALSE, Other, "txt", "b") }

\* A listing text, as its tokens in order: dollar says the token is "$<num>".
\* _download_text(name): what each object of the universe holds.
Tok(dollar, num) == [dollar |-> dollar, num |-> num]
download_text(name) ==
    IF name.sub = "old" THEN <<Tok(TRUE, 200), Tok(TRUE, 100)>>
    ELSE IF name.label THEN <<Tok(FALSE, 2015), Tok(TRUE, 100)>>
    ELSE <<Tok(FALSE, 2015)>>

\* A structured object  structured/run_id=<run>/jsonl/<pid>.jsonl
Key(run, pid) == [run |-> run, pid |-> pid]

VARIABLES
    txt,          \* raw inputs: the set of TxtNames present in the bucket
    structured,   \* structured store: function from the present keys to records
    master,       \* datasets/listings_master.csv: [exists, rows]
    clock,        \* invocations so far; the c-th invocation runs at NowAt(c)
    last,         \* request and result of the invocation that ended last
    inv           \* the in-flight extract invocations (concurrent specification)

vars == <<txt, structured, master, clock, last, inv>>

\* ------------------------------------------------------------- extractor
\* extractor _list_run_ids: the folders directly under scrapes/, with or
\* without the run_id= label, whose name matches one of the two patterns,
\* sorted as strings.  (A run present under both spellings is listed twice in
\* the code; only emptiness and the last element are ever read.)
extractor_list_run_ids(t) ==
    SortedRunIds({ n.run : n \in { m \in t :
                       RUN_ID_ISO_RE(m.run) \/ RUN_ID_PLAIN_RE(m.run) } })

\* Object names under one prefix come back in ascending name order: objects
\* directly under the prefix ("a.txt", "b.txt") before "old/..." before "txt/...".
SubRank(sub) == IF sub = "" THEN 0 ELSE IF sub = "old" THEN 1 ELSE 2
NameLess(a, b) ==
    \/ SubRank(a.sub) < SubRank(b.sub)
    \/ SubRank(a.sub) = SubRank(b.sub) /\ a.base = "a" /\ b.base = "b"

RECURSIVE SortedNames(_)
SortedNames(S) ==
    IF S = {} THEN <<>>
    ELSE LET m == CHOOSE x \in S : \A y \in S \ {x} : NameLess(x, y)
         IN  <<m>> \o SortedNames(S \ {m})

\* bucket.list_blobs(prefix=candidate i) filtered to *.txt, for
\*   1 scrapes/run_id=<run>/txt/   2 scrapes/run_id=<run>/
\*   3 scrapes/<run>/txt/          4 scrapes/<run>/
Candidate(t, run_id, i) ==
    { n \in t : /\ n.run = run_id
                /\ n.label = (i \in {1, 2})
                /\ (i \in {1, 3} => n.sub = "txt") }

\* _txt_objects_for_run: the first candidate prefix that lists anything
txt_objects_for_run(t, run_id) ==
    LET hit == { i \in 1..4 : Candidate(t, run_id, i) # {} }
    IN  IF hit = {} THEN <<>>
        ELSE SortedNames(Candidate(t, run_id, CHOOSE i \in hit : \A j \in hit : i <= j))

\* _parse_run_id_as_iso: the run's instant; any failure (no pattern matches, or
\* strptime raises) is caught and gives the current instant
parse_run_id_as_iso(run_id, now) ==
    IF (RUN_ID_ISO_RE(run_id) \/ RUN_ID_PLAIN_RE(run_id)) /\ StrptimeOk(run_id)
    THEN Instant(run_id)
    ELSE now

\* parse_listing, the price rule: the first "$<digits>" token, else no key.
\* An optional field is a sequence of length 0 (key absent) or 1.
parse_listing(text) ==
    LET idx == { i \in 1..Len(text) : text[i].dollar }
    IN  [price |-> IF idx = {} THEN <<>>
                   ELSE <<text[CHOOSE i \in idx : \A j \in idx : i <= j].num>>]

\* os.path.splitext(os.path.basename(name))[0]
post_id_of(name) == name.base

ExtractRecord(name, run_id, scraped_at) ==
    [post_id    |-> post_id_of(name),
     run_id     |-> run_id,
     scraped_at |-> scraped_at,
     source_txt |-> name,
     price      |-> parse_listing(download_text(name)).price]

\* Mutant of the iteration: the exists-check is dropped, every file is uploaded.
ProcessFileNoSkip(name, ctx, acc) ==
    LET fails(st) == name \in ctx.failing /\ ctx.stage = st
        out_key   == [run |-> ctx.run_id, pid |-> name.base]
        record    == [post_id |-> name.base, run_id |-> ctx.run_id,
                      scraped_at |-> ctx.scraped_at, source_txt |-> name,
                      price |-> parse_listing(download_text(name)).price]
        err       == [acc EXCEPT !.errors = @ + 1, !.processed = @ + 1]
    IN  IF fails("download") \/ fails("upload") THEN err
        ELSE [acc EXCEPT !.store = (out_key :> record) @@ acc.store,
                         !.written = @ + 1, !.processed = @ + 1]

\* One iteration of the per-file loop.  ctx.failing are the objects on which
\* the storage call ctx.stage ("download", "exists" or "upload") raises when
\* the iteration makes that call.
ProcessFile(name, ctx, acc) ==
    LET fails(st) == name \in ctx.failing /\ ctx.stage = st
        out_key   == Key(ctx.run_id, post_id_of(name))
        record    == ExtractRecord(name, ctx.run_id, ctx.scraped_at)
        err       == [acc EXCEPT !.errors = @ + 1, !.processed = @ + 1]
    IN  IF fails("download") THEN err
        ELSE IF ~ctx.overwrite /\ fails("exists") THEN err
        ELSE IF ~ctx.overwrite /\ out_key \in DOMAIN acc.store
             THEN [acc EXCEPT !.skipped = @ + 1, !.processed = @ + 1]
        ELSE IF fails("upload") THEN err
        ELSE [acc EXCEPT !.store = (out_key :> record) @@ acc.store,
                         !.written = @ + 1, !.processed = @ + 1]

\* for name in txt_blobs: ...
RECURSIVE ExtractLoop(_, _, _)

\* Mutant of the loop: the first failing file ends the batch.
RECURSIVE ExtractLoopAbort(_, _, _)
ExtractLoopAbort(names, ctx, acc) ==
    IF names = <<>> \/ acc.errors > 0 THEN acc
    ELSE ExtractLoopAbort(Tail(names), ctx, ProcessFile(Head(names), ctx, acc))


ExtractLoop(names, ctx, acc) ==
    IF names = <<>> THEN acc
    ELSE ExtractLoop(Tail(names), ctx, ProcessFile(Head(names), ctx, acc))

\* txt_blobs[:max_files] when max_files > 0
Selected(names, max_files) ==
    IF max_files > 0 /\ max_files < Len(names) THEN SubSeq(names, 1, max_files)
    ELSE names

\* The result of an extract invocation, as the caller sees it.  outcome
\* "crash" is an exception leaving the handler; req and at are kept for the
\* properties.
ExtractResult(outcome, status, ok, error, run_id, counts, req, at) ==
    [fn |-> "extract", outcome |-> outcome, status |-> status, ok |-> ok,
     error |-> error, run_id |-> run_id, processed_txt |-> counts[1],
     written_jsonl |-> counts[2], skipped_existing |-> counts[3], errors |-> counts[4],
     req |-> req, at |-> at]

\* Mutant: the no-data condition answered as a fault
ExtractNoRunsAsFault(req, at) ==
    ExtractResult("payload", 500, FALSE, "no run_ids found", NoRun, <<0, 0, 0, 0>>, req, at)

\* the payload returned when no run id is given and none is discovered
ExtractNoRunsResult(req, at) ==
    ExtractResult("payload", 200, FALSE, "no run_ids found", NoRun, <<0, 0, 0, 0>>, req, at)

\* the payload returned when the chosen run has no .txt object
ExtractNoTxtResult(run_id, req, at) ==
    ExtractResult("payload", 200, FALSE, "no .txt files found for run", run_id,
                  <<0, 0, 0, 0>>, req, at)

\* lines 176-181: the run an extract request works on: the given one, else the
\* last of the sorted discovered run ids (NoRun when none is discovered)
RunChosen(req, t) ==
    IF req.run_id # NoRun THEN req.run_id
    ELSE IF extractor_list_run_ids(t) = <<>> THEN NoRun
    ELSE extractor_list_run_ids(t)[Len(extractor_list_run_ids(t))]

\* extract_http: [store, resp] for request req = [run_id, max_files, overwrite,
\* fault, failing, stage] run at the at-th instant over inputs t and store s.
extract_http(req, t, s, at) ==
    LET crash(e) == [store |-> s,
                     resp  |-> ExtractResult("crash", 0, FALSE, e, NoRun, <<0, 0, 0, 0>>, req, at)]
    IN
    IF ~req.max_files.isint THEN crash("ValueError")                  \* int(...)
    ELSE IF req.run_id = NoRun /\ req.fault = "run_ids" THEN crash("StorageError")
    ELSE IF req.run_id = NoRun /\ extractor_list_run_ids(t) = <<>>
         THEN [store |-> s, resp |-> ExtractNoRunsResult(req, at)]
    ELSE
    LET runs       == extractor_list_run_ids(t)
        run_id     == IF req.run_id = NoRun THEN runs[Len(runs)] ELSE req.run_id
        scraped_at == parse_run_id_as_iso(run_id, NowAt(at))
    IN
    IF req.fault = "txt" THEN crash("StorageError")
    ELSE IF txt_objects_for_run(t, run_id) = <<>>
         THEN [store |-> s, resp |-> ExtractNoTxtResult(run_id, req, at)]
    ELSE
    LET txt_blobs == Selected(txt_objects_for_run(t, run_id), req.max_files.val)
        ctx == [run_id |-> run_id, scraped_at |-> scraped_at,
                overwrite |-> req.overwrite, failing |-> req.failing, stage |-> req.stage]
        acc == ExtractLoop(txt_blobs, ctx,
                           [store |-> s, processed |-> 0, written |-> 0,
                            skipped |-> 0, errors |-> 0])
    IN  [store |-> acc.store,
         resp  |-> ExtractResult("payload", 200, TRUE, "", run_id,
                          <<acc.processed, acc.written, acc.skipped, acc.errors>>,
                          req, at)]

\* ------------------------------------------------------------- materializer
\* materializer _list_run_ids: the folders structured/run_id=<rid>/ whose rid
\* matches one of the two patterns, sorted as strings
materialize_list_run_ids(s) ==
    SortedRunIds({ k.run : k \in { j \in DOMAIN s :
                       RUN_ID_ISO_RE(j.run) \/ RUN_ID_PLAIN_RE(j.run) } })

\* _jsonl_records_for_run: the records under run_id=<rid>/jsonl/ in listing
\* order ("a.jsonl" before "b.jsonl").  Every stored record carries run_id, so
\* setdefault changes nothing.
jsonl_records_for_run(s, rid) ==
    (IF Key(rid, "a") \in DOMAIN s THEN <<s[Key(rid, "a")]>> ELSE <<>>)
    \o (IF Key(rid, "b") \in DOMAIN s THEN <<s[Key(rid, "b")]>> ELSE <<>>)

\* _run_id_to_dt: [raised, dt].  strptime is not guarded here: digits that are
\* no calendar date raise ValueError; only a string matching neither pattern
\* takes the fallback to the current instant.
run_id_to_dt(rid, now) ==
    IF RUN_ID_ISO_RE(rid) \/ RUN_ID_PLAIN_RE(rid)
    THEN (IF StrptimeOk(rid) THEN [raised |-> FALSE, dt |-> Instant(rid)]
                             ELSE [raised |-> TRUE,  dt |-> now])
    ELSE [raised |-> FALSE, dt |-> now]

\* Mutants of the comparison: every incoming record replaces the retained one
\* (last seen wins); an equal instant replaces too (">=" for ">").
ReplacesAlways(new_dt, prev_dt) == TRUE
ReplacesOrEqual(new_dt, prev_dt) == ~DtGreater(prev_dt, new_dt)

\* the comparison of line 115: the incoming record replaces the retained one
Replaces(new_dt, prev_dt) == DtGreater(new_dt, prev_dt)

\* One iteration of the merge loop over acc = [raised, latest, order]: latest is
\* latest_by_post, order its keys in insertion order (the order of .values()).
MergeStep(acc, rec, now) ==
    LET pid == rec.post_id IN
    IF acc.raised \/ pid = "" THEN acc
    ELSE IF pid \notin DOMAIN acc.latest
         THEN [acc EXCEPT !.latest = (pid :> rec) @@ acc.latest,
                          !.order = Append(acc.order, pid)]
    ELSE LET a == run_id_to_dt(rec.run_id, now)
             b == run_id_to_dt(acc.latest[pid].run_id, now)
         IN  IF a.raised \/ b.raised THEN [acc EXCEPT !.raised = TRUE]
             ELSE IF Replaces(a.dt, b.dt)
                  THEN [acc EXCEPT !.latest = (pid :> rec) @@ acc.latest]
             ELSE acc

RECURSIVE MergeSeq(_, _, _)
MergeSeq(recs, acc, now) ==
    IF recs = <<>> THEN acc
    ELSE MergeSeq(Tail(recs), MergeStep(acc, Head(recs), now), now)

\* for rid in run_ids: for rec in _jsonl_records_for_run(...): the records in
\* the order the two loops meet them
RECURSIVE Enumerate(_, _)
Enumerate(s, run_ids) ==
    IF run_ids = <<>> THEN <<>>
    ELSE jsonl_records_for_run(s, Head(run_ids)) \o Enumerate(s, Tail(run_ids))

Merge(s, now) ==
    MergeSeq(Enumerate(s, materialize_list_run_ids(s)),
             [raised |-> FALSE, latest |-> << >>, order |-> <<>>], now)

\* row = {c: rec.get(c, None) for c in columns}, over the modelled columns
CsvRow(rec) ==
    [post_id |-> rec.post_id, run_id |-> rec.run_id, scraped_at |-> rec.scraped_at,
     price |-> rec.price, source_txt |-> rec.source_txt]

\* the rows of latest_by_post.values(), in order
Rows(m) == [i \in 1..Len(m.order) |-> CsvRow(m.latest[m.order[i]])]

MaterializeResult(outcome, status, ok, error, counts, req, at) ==
    [fn |-> "materialize", outcome |-> outcome, status |-> status, ok |-> ok,
     error |-> error, runs_scanned |-> counts[1], unique_listings |-> counts[2],
     rows_written |-> counts[3], req |-> req, at |-> at]

\* the payload returned when no run folder is discovered
MaterializeNoRunsResult(req, at) ==
    MaterializeResult("payload", 200, FALSE, "no runs found", <<0, 0, 0>>, req, at)

\* _write_csv: what the destination object holds after the with-block is left.
\* The writer finalizes the upload on close(), and leaving the with-block closes
\* it, also when a row write raised: the object then holds the header and the
\* rows written so far (unless the close fails too).
write_csv(rows, req, dest) ==
    IF req.fault = "open" THEN [raised |-> TRUE, dest |-> dest]
    ELSE IF req.fault = "write" /\ req.after < Len(rows)
         THEN [raised |-> TRUE,
               dest |-> IF req.close_ok
                        THEN [exists |-> TRUE, rows |-> SubSeq(rows, 1, req.after)]
                        ELSE dest]
    ELSE IF req.fault = "close" THEN [raised |-> TRUE, dest |-> dest]
    ELSE [raised |-> FALSE, dest |-> [exists |-> TRUE, rows |-> rows]]

\* materialize_http: [master, resp] for fault request req = [fault, after,
\* close_ok] run at the at-th instant over store s and destination m.  Every
\* exception is caught and answered with status 500.
materialize_http(req, s, m, at) ==
    LET error(e) == MaterializeResult("payload", 500, FALSE, e, <<0, 0, 0>>, req, at)
        run_ids  == materialize_list_run_ids(s)
        merged   == Merge(s, NowAt(at))
        written  == write_csv(Rows(merged), req, m)
    IN
    IF req.fault = "list" THEN [master |-> m, resp |-> error("StorageError")]
    ELSE IF run_ids = <<>> THEN [master |-> m, resp |-> MaterializeNoRunsResult(req, at)]
    ELSE IF req.fault = "scan" THEN [master |-> m, resp |-> error("StorageError")]
    ELSE IF merged.raised THEN [master |-> m, resp |-> error("ValueError")]
    ELSE IF written.raised THEN [master |-> written.dest, resp |-> error("WriteError")]
    ELSE [master |-> written.dest,
          resp   |-> MaterializeResult("payload", 200, TRUE, "",
                        <<Len(run_ids), Len(merged.order), Len(Rows(merged))>>, req, at)]

\* ------------------------------------------------------------- requests
MaxFilesInputs == { [isint |-> TRUE, val |-> 0], [isint |-> TRUE, val |-> 1],
                    [isint |-> FALSE, val |-> 0] }       \* 0, 1, "abc"

\* Requests and the faults met while serving them.  A request names no run,
\* a run with inputs, or one run without; a fault is listed only where the
\* request can meet it.
ReqInts == { m \in MaxFilesInputs : m.isint }
ReqRuns(t) == {NoRun, Other} \cup { n.run : n \in t }
ReqFiles(t, run) ==
    IF run # NoRun THEN { n \in t : n.run = run }
    ELSE { n \in t : \A m \in t : (RUN_ID_ISO_RE(m.run) \/ RUN_ID_PLAIN_RE(m.run))
                                      => ~StrLess(n.run, m.run) }
Stages == {"download", "exists", "upload"}

Req(run_id, max_files, overwrite, fault, failing, stage) ==
    [run_id |-> run_id, max_files |-> max_files, overwrite |-> overwrite,
     fault |-> fault, failing |-> failing, stage |-> stage]

MaterializeRequests ==
    { r \in [fault : {"none", "list", "scan", "open", "write", "close"},
             after : 0..MaxRecs, close_ok : BOOLEAN] :
        /\ (r.fault # "write" => r.after = 0 /\ r.close_ok) }

NoResult == [fn |-> "none", outcome |-> "payload", status |-> 0, ok |-> FALSE,
             error |-> "", req |-> [fault |-> "none"], at |-> 0]

NoMaster == [exists |-> FALSE, rows |-> <<>>]

\* ------------------------------------------------------------- actions
Init ==
    /\ txt \in { T \in SUBSET TxtNames : Cardinality(T) <= MaxTxt }
    /\ structured = << >>
    /\ master = NoMaster
    /\ clock = 0
    /\ last = NoResult
    /\ inv = << >>

Extract(req) ==
    /\ clock < MaxCalls
    /\ LET out == extract_http(req, txt, structured, clock + 1)
       IN  /\ structured' = out.store
           /\ last' = out.resp
    /\ clock' = clock + 1
    /\ UNCHANGED <<txt, master, inv>>

Materialize(req) ==
    /\ clock < MaxCalls
    /\ LET out == materialize_http(req, structured, master, clock + 1)
       IN  /\ master' = out.master
           /\ last' = out.resp
    /\ clock' = clock + 1
    /\ UNCHANGED <<txt, structured, inv>>

\* an extract request served with no fault, or with the input listing failing
ExtractServed ==
    \E run \in ReqRuns(txt), mf \in ReqInts, ow \in BOOLEAN, f \in {"none", "txt"} :
        Extract(Req(run, mf, ow, f, {}, "download"))

\* max_files is not an integer
ExtractBadMaxFiles ==
    \E mf \in MaxFilesInputs \ ReqInts :
        Extract(Req(NoRun, mf, FALSE, "none", {}, "download"))

\* no run_id given and the listing of run folders fails
ExtractListFault ==
    \E mf \in ReqInts, ow \in BOOLEAN :
        Extract(Req(NoRun, mf, ow, "run_ids", {}, "download"))

\* some files fail at one storage call of their iteration
ExtractFailing ==
    \E run \in ReqRuns(txt), mf \in ReqInts, ow \in BOOLEAN, st \in Stages :
        \E failing \in (SUBSET ReqFiles(txt, run)) \ {{}} :
            /\ st = "exists" => ~ow
            /\ Extract(Req(run, mf, ow, "none", failing, st))

MaterializeAny == \E req \in MaterializeRequests : Materialize(req)

Next ==
    \/ ExtractServed
    \/ ExtractBadMaxFiles
    \/ ExtractListFault
    \/ ExtractFailing
    \/ MaterializeAny

Spec == Init /\ [][Next]_vars

\* ------------------------------------------------------------- materialize alone
\* The records the extractor can have left in the store: one per input object
\* of the universe; a run whose instant cannot be derived was stamped with the
\* instant of the extraction (an earlier day than NowAt).
PastAt(c) == [d |-> 20261101, t |-> c]

StoredBefore ==
    { ExtractRecord(n, n.run, parse_run_id_as_iso(n.run, PastAt(c))) :
        n \in TxtNames, c \in 1..MaxCalls }

KeyOf(rec) == Key(rec.run_id, rec.post_id)

StoreOf(S) == [k \in { KeyOf(r) : r \in S } |-> CHOOSE r \in S : KeyOf(r) = k]

InitMat ==
    \E S \in SUBSET StoredBefore :
        /\ Cardinality(S) <= MaxRecs
        /\ \A r, q \in S : KeyOf(r) = KeyOf(q) => r = q
        /\ txt = { r.source_txt : r \in S }
        /\ structured = StoreOf(S)
        /\ master = NoMaster
        /\ clock = 0
        /\ last = NoResult
        /\ inv = << >>

NextMat == MaterializeAny

SpecMat == InitMat /\ [][NextMat]_vars

\* ------------------------------------------------------------- properties
\* the records under the run folders the materializer discovers
ScannedRecords(s) ==
    { s[k] : k \in { j \in DOMAIN s : RUN_ID_ISO_RE(j.run) \/ RUN_ID_PLAIN_RE(j.run) } }

\* run id x denotes a later instant than run id y
ChronoLater(x, y) == x.date > y.date \/ (x.date = y.date /\ x.time > y.time)

\* every order in which the records of S can be enumerated
Orders(S) ==
    { f \in [1..Cardinality(S) -> S] : \A x \in S : \E i \in 1..Cardinality(S) : f[i] = x }

EmptyMerge == [raised |-> FALSE, latest |-> << >>, order |-> <<>>]

MaterializeDone == last.fn = "materialize" /\ last.outcome = "payload" /\ last.ok

\* C1: after a materialize invocation that completes successfully, the table
\* holds exactly one row for every post_id among the scanned records, that row
\* is a record of the chronologically latest run for that post_id, and when
\* that latest instant is unique the merge retains the same record under every
\* enumeration order of the records.
C1_LatestWins ==
    MaterializeDone =>
        LET recs == ScannedRecords(structured)
            rows == master.rows
        IN  /\ master.exists
            /\ \A r \in recs :
                   Cardinality({ i \in 1..Len(rows) : rows[i].post_id = r.post_id }) = 1
            /\ \A i \in 1..Len(rows) :
                   \E r \in recs :
                       /\ rows[i] = CsvRow(r)
                       /\ \A q \in recs :
                              q.post_id = r.post_id => ~ChronoLater(q.run_id, r.run_id)
                       /\ (\A q \in recs \ {r} :
                              q.post_id = r.post_id => ChronoLater(r.run_id, q.run_id))
                          => \A f \in Orders(recs) :
                                 LET m == MergeSeq(f, EmptyMerge, NowAt(last.at))
                                 IN  ~m.raised /\ CsvRow(m.latest[r.post_id]) = rows[i]

\* C1 witness: a successful run over a store holding the same post_id under two
\* runs, the later instant in the run that sorts first.
C1_Witness ==
    /\ MaterializeDone
    /\ Key(P1, "a") \in DOMAIN structured /\ Key(I0, "a") \in DOMAIN structured
    /\ Len(master.rows) = 1 /\ master.rows[1].run_id = P1

\* C8: when two records of one post_id resolve to the same instant, the row is
\* the one met first: no record of an equal instant from a run that sorts
\* earlier exists beside the retained one.
C8_TieKeepsFirst ==
    MaterializeDone =>
        \A i \in 1..Len(master.rows) :
            \A q \in ScannedRecords(structured) :
                ( /\ q.post_id = master.rows[i].post_id
                  /\ q.run_id # master.rows[i].run_id
                  /\ ~ChronoLater(q.run_id, master.rows[i].run_id)
                  /\ ~ChronoLater(master.rows[i].run_id, q.run_id) )
                => StrLess(master.rows[i].run_id, q.run_id)

\* C8 witness: the same instant in both encodings, the plain one retained.
C8_Witness ==
    /\ MaterializeDone
    /\ Key(P1, "a") \in DOMAIN structured /\ Key(I1, "a") \in DOMAIN structured
    /\ \E i \in 1..Len(master.rows) : master.rows[i].run_id = P1

\* C2: the destination object is at every step either what it was or the new
\* complete table (one row per merged listing).
C2_AtomicPublish ==
    [][ \/ master' = master
        \/ /\ ~Merge(structured, NowAt(clock + 1)).raised
           /\ master' = [exists |-> TRUE,
                         rows |-> Rows(Merge(structured, NowAt(clock + 1)))] ]_vars

\* C9: resolving a run id never fails: the extractor stamped every record of
\* an unparseable run with the instant of its extraction, and a materialize
\* invocation that meets no storage fault is not ended by the resolution.
C9_ResolveNeverFails ==
    /\ \A k \in DOMAIN structured :
           ~StrptimeOk(k.run) => structured[k].scraped_at.d = PastAt(0).d
    /\ (last.fn = "materialize" /\ last.req.fault = "none") => last.status = 200

\* the last invocation was an extract that met no fault before its file loop
ExtractEntered ==
    /\ last.fn = "extract"
    /\ last.req.max_files.isint
    /\ last.req.fault = "none"

\* ... and its run has input files
ExtractLooped ==
    /\ ExtractEntered
    /\ RunChosen(last.req, txt) # NoRun
    /\ txt_objects_for_run(txt, RunChosen(last.req, txt)) # <<>>

SeqSet(q) == { q[i] : i \in 1..Len(q) }

\* this step is an extract invocation that follows a fault-free extract
\* invocation on the same run, both with overwrite = false, and is fault-free
SecondExtract ==
    /\ last.fn = "extract" /\ last.outcome = "payload" /\ last.ok
    /\ ~last.req.overwrite /\ last.errors = 0
    /\ clock' = clock + 1
    /\ last'.fn = "extract" /\ last'.outcome = "payload" /\ last'.ok
    /\ ~last'.req.overwrite /\ last'.errors = 0
    /\ last'.run_id = last.run_id

\* C3 as stated: the second invocation writes nothing, skips as many outputs
\* as the run has input files, and leaves the store as it was.
C3_SecondRunSkipsAllFiles ==
    [][ SecondExtract =>
            /\ last'.written_jsonl = 0
            /\ last'.skipped_existing = Len(txt_objects_for_run(txt, last'.run_id))
            /\ structured' = structured ]_vars

\* C3 amended: with the same max_files in both invocations, the second writes
\* nothing, skips every file it selects (all of the run's files when max_files
\* is 0), and leaves the store as it was.
C3_SecondRunSkipsSelected ==
    [][ (SecondExtract /\ last'.req.max_files = last.req.max_files) =>
            /\ last'.written_jsonl = 0
            /\ last'.skipped_existing =
                   Len(Selected(txt_objects_for_run(txt, last'.run_id),
                                last'.req.max_files.val))
            /\ (last'.req.max_files.val = 0 =>
                   last'.skipped_existing = Len(txt_objects_for_run(txt, last'.run_id)))
            /\ structured' = structured ]_vars

\* C3 witness: a second invocation that skipped both files of its run.
C3_Witness ==
    /\ clock = 2 /\ last.fn = "extract" /\ last.ok /\ ~last.req.overwrite
    /\ last.errors = 0 /\ last.written_jsonl = 0 /\ last.skipped_existing = 2
    /\ Cardinality({ k \in DOMAIN structured : k.run = last.run_id }) = 2

\* C4: a failing file counts one error and never ends the batch: the result
\* is ok, every selected file is processed and counted once, no file without a
\* fault is counted as an error, and every selected file without a fault has
\* its output in the store.
C4_PartialFailure ==
    ExtractLooped =>
        LET sel == Selected(txt_objects_for_run(txt, RunChosen(last.req, txt)),
                            last.req.max_files.val)
            bad == SeqSet(sel) \cap last.req.failing
        IN  /\ last.outcome = "payload" /\ last.status = 200 /\ last.ok
            /\ last.processed_txt = Len(sel)
            /\ last.processed_txt =
                   last.written_jsonl + last.skipped_existing + last.errors
            /\ last.errors <= Cardinality(bad)
            /\ (last.req.stage = "download" => last.errors = Cardinality(bad))
            /\ \A n \in SeqSet(sel) \ bad :
                   Key(last.run_id, post_id_of(n)) \in DOMAIN structured

\* C4 witness: the first of two selected files failed and the second was
\* still written.
C4_Witness ==
    /\ ExtractLooped /\ clock = 1
    /\ last.processed_txt = 2 /\ last.errors = 1 /\ last.written_jsonl = 1
    /\ Head(txt_objects_for_run(txt, last.run_id)) \in last.req.failing

\* the last invocation found no data: no run to work on, or no input file
\* for the run (extract); no run folder (materialize)
NoData ==
    \/ /\ ExtractEntered
       /\ \/ RunChosen(last.req, txt) = NoRun
          \/ txt_objects_for_run(txt, RunChosen(last.req, txt)) = <<>>
    \/ /\ last.fn = "materialize" /\ last.req.fault # "list"
       /\ materialize_list_run_ids(structured) = <<>>

C6_AlwaysPayload == last.outcome = "payload"

\* C10: without a run_id, extract works on the chronologically latest of the
\* discovered runs.
C10_PicksNewest ==
    (ExtractEntered /\ last.req.run_id = NoRun /\ last.outcome = "payload"
        /\ last.run_id # NoRun) =>
        \A n \in txt :
            (RUN_ID_ISO_RE(n.run) \/ RUN_ID_PLAIN_RE(n.run)) =>
                ~ChronoLater(n.run, last.run_id)

\* ------------------------------------------------------------- concurrent extract
\* Two extract invocations served at once by separate instances.  Each runs
\* extract_http one storage call at a time: the listings (CStart), the
\* download and exists-check of the next file (CCheck), its upload (CUpload)
\* and the return (CFinish).  No storage call faults here.
Invocations == {1, 2}

Idle == [pc |-> "idle", req |-> [run_id |-> NoRun], at |-> 0, run_id |-> NoRun,
         scraped_at |-> NowAt(0), todo |-> <<>>,
         processed |-> 0, written |-> 0, skipped |-> 0]

InitConc ==
    /\ txt \in { T \in SUBSET TxtNames : Cardinality(T) <= MaxTxt }
    /\ structured = << >>
    /\ master = NoMaster
    /\ clock = 0
    /\ last = NoResult
    /\ inv = [i \in Invocations |-> Idle]

\* lines 172-189: the request is read, the run chosen, its files listed
CStart(i, run, mf, ow) ==
    /\ inv[i].pc = "idle"
    /\ clock < MaxCalls
    /\ clock' = clock + 1
    /\ LET req    == Req(run, mf, ow, "none", {}, "download")
           run_id == RunChosen(req, txt)
           names  == IF run_id = NoRun THEN <<>> ELSE txt_objects_for_run(txt, run_id)
       IN  inv' = [inv EXCEPT ![i] =
                     [pc |-> IF names = <<>> THEN "nodata" ELSE "check",
                      req |-> req, at |-> clock + 1, run_id |-> run_id,
                      scraped_at |-> parse_run_id_as_iso(run_id, NowAt(clock + 1)),
                      todo |-> Selected(names, req.max_files.val),
                      processed |-> 0, written |-> 0, skipped |-> 0]]
    /\ UNCHANGED <<txt, structured, master, last>>

\* Mutant of CCheck: the exists-check is dropped, every file goes to upload.
CCheckNoSkip(i) ==
    /\ inv[i].pc = "check" /\ inv[i].todo # <<>>
    /\ inv' = [inv EXCEPT ![i].pc = "upload"]
    /\ UNCHANGED <<txt, structured, master, clock, last>>

\* lines 196-211: download, parse, build the record, check the output key
CCheck(i) ==
    /\ inv[i].pc = "check" /\ inv[i].todo # <<>>
    /\ LET out_key == Key(inv[i].run_id, post_id_of(Head(inv[i].todo)))
       IN  IF ~inv[i].req.overwrite /\ out_key \in DOMAIN structured
           THEN inv' = [inv EXCEPT ![i].skipped = @ + 1, ![i].processed = @ + 1,
                                   ![i].todo = Tail(@)]
           ELSE inv' = [inv EXCEPT ![i].pc = "upload"]
    /\ UNCHANGED <<txt, structured, master, clock, last>>

\* lines 213-214 and 220: _upload_jsonl_line replaces the object at out_key
CUpload(i) ==
    /\ inv[i].pc = "upload"
    /\ LET name == Head(inv[i].todo)
       IN  structured' = (Key(inv[i].run_id, post_id_of(name)) :>
                             ExtractRecord(name, inv[i].run_id, inv[i].scraped_at))
                         @@ structured
    /\ inv' = [inv EXCEPT ![i].pc = "check", ![i].written = @ + 1,
                          ![i].processed = @ + 1, ![i].todo = Tail(@)]
    /\ UNCHANGED <<txt, master, clock, last>>

\* lines 180, 187, 222-232: the result is returned
CFinish(i) ==
    /\ \/ inv[i].pc = "nodata"
       \/ inv[i].pc = "check" /\ inv[i].todo = <<>>
    /\ last' = IF inv[i].pc = "check"
               THEN ExtractResult("payload", 200, TRUE, "", inv[i].run_id,
                        <<inv[i].processed, inv[i].written, inv[i].skipped, 0>>,
                        inv[i].req, inv[i].at)
               ELSE IF inv[i].run_id = NoRun
                    THEN ExtractNoRunsResult(inv[i].req, inv[i].at)
                    ELSE ExtractNoTxtResult(inv[i].run_id, inv[i].req, inv[i].at)
    /\ inv' = [inv EXCEPT ![i].pc = "done"]
    /\ UNCHANGED <<txt, structured, master, clock>>

NextConc ==
    \E i \in Invocations :
        \/ \E run \in ReqRuns(txt), mf \in ReqInts, ow \in BOOLEAN : CStart(i, run, mf, ow)
        \/ CCheck(i)
        \/ CUpload(i)
        \/ CFinish(i)

SpecConc == InitConc /\ [][NextConc]_vars

\* the store a lone invocation i leaves, started on the empty store
Lone(i) == extract_http(inv[i].req, txt, << >>, inv[i].at).store

\* both invocations have returned, having worked on the same run with
\* overwrite = false
BothDoneSameRun ==
    /\ \A i \in Invocations : inv[i].pc = "done" /\ ~inv[i].req.overwrite
    /\ inv[1].run_id = inv[2].run_id
    /\ inv[1].run_id # NoRun

\* C7 as stated: the two invocations leave the store in the state a single
\* invocation alone leaves.
C7_SameAsLone ==
    BothDoneSameRun => \E i \in Invocations : structured = Lone(i)

\* C7 amended: for a run id that resolves to an instant, the store ends in
\* the state a single invocation alone leaves; for every run id, each output
\* key holds a record that one of the two invocations alone would have written.
C7_SameAsLoneWhenParseable ==
    BothDoneSameRun =>
        /\ ((RUN_ID_ISO_RE(inv[1].run_id) \/ RUN_ID_PLAIN_RE(inv[1].run_id))
               /\ StrptimeOk(inv[1].run_id))
           => \E i \in Invocations : structured = Lone(i)
        /\ DOMAIN structured = DOMAIN Lone(1) \cup DOMAIN Lone(2)
        /\ \A k \in DOMAIN structured :
               \E i \in Invocations : k \in DOMAIN Lone(i) /\ structured[k] = Lone(i)[k]

\* C7 witness: both invocations uploaded (each passed the exists-check before
\* the other's upload) and the run has two inputs with the same post_id.
C7_Witness ==
    /\ BothDoneSameRun
    /\ inv[1].written >= 1 /\ inv[2].written >= 1
    /\ inv[1].run_id = I0 /\ inv[1].skipped = 1 /\ inv[2].skipped = 1

====
